---- MODULE Spec2Model ----
(***************************************************************************)
(* Model of the mentor assistant backend: the access guard verifyToken and *)
(* the GET /summary/:mentorId/:tutorId handler, in its two copies          *)
(* (src/src/index.ts, the "scores" copy, and src/unnamed/part_000, the     *)
(* "patterns" copy).  Both copies serve the same request and see the same  *)
(* collaborators (token verifier, document store, AI provider).            *)
(*                                                                         *)
(* Texts are sequences of one-character strings.  A JSON value is a record *)
(* [t, s, n, kids]: t is its kind ("str", "num", "lit", "arr", "obj"), s   *)
(* the characters of a string or literal, n the number, kids the           *)
(* <<key, value>> members of an object in insertion order, or the elements *)
(* of an array, each under the empty key.                                  *)
(***************************************************************************)
EXTENDS Integers, Sequences, FiniteSets, TLC

\* ------------------------------------------------------------------ bounds
\* Longest provider text enumerated character by character.
MaxTextLen == 3
\* Most incident records the store read returns.
MaxIncidents == 1

\* ------------------------------------------------------- string constants
KeySummary ==
    <<"s","u","m","m","a","r","y">>
KeyScores ==
    <<"s","c","o","r","e","s">>
KeyPatterns ==
    <<"p","a","t","t","e","r","n","s">>
KeySuggestions ==
    <<"s","u","g","g","e","s","t","i","o","n","s">>
KeyScore ==
    <<"s","c","o","r","e">>
KeyJustification ==
    <<"j","u","s","t","i","f","i","c","a","t","i","o","n">>
KeyMessage ==
    <<"m","e","s","s","a","g","e">>
KeyError ==
    <<"e","r","r","o","r">>
NoIncidentsText ==
    <<"N","o"," ","i","n","c","i","d","e","n","t","s"," ","t","o"," ","s","u","m","m","a","r","i","z","e"," ","y","e","t",".">>
SomethingWrongText ==
    <<"S","o","m","e","t","h","i","n","g"," ","w","r","o","n","g"," ","h","a","p","p","e","n","e","d">>
NoTokenText ==
    <<"U","n","a","u","t","h","o","r","i","z","e","d",":"," ","N","o"," ","t","o","k","e","n"," ","p","r","o","v","i","d","e","d",".">>
InvalidTokenText ==
    <<"F","o","r","b","i","d","d","e","n",":"," ","I","n","v","a","l","i","d"," ","t","o","k","e","n",".">>
OwnDataText ==
    <<"F","o","r","b","i","d","d","e","n",":"," ","Y","o","u"," ","c","a","n"," ","o","n","l","y"," ","a","c","c","e","s","s"," ","y","o","u","r"," ","o","w","n"," ","d","a","t","a",".">>
BearerPrefix ==
    <<"B","e","a","r","e","r"," ">>
UnknownDate ==
    <<"u","n","k","n","o","w","n"," ","d","a","t","e">>
SuggestsNewIdeas ==
    <<"S","u","g","g","e","s","t","s"," ","N","e","w"," ","I","d","e","a","s">>
Collaboration ==
    <<"C","o","l","l","a","b","o","r","a","t","i","o","n">>
Responsiveness ==
    <<"R","e","s","p","o","n","s","i","v","e","n","e","s","s">>
Adaptability ==
    <<"A","d","a","p","t","a","b","i","l","i","t","y">>
Feedback ==
    <<"F","e","e","d","b","a","c","k">>
Attendance ==
    <<"A","t","t","e","n","d","a","n","c","e">>
Professionalism ==
    <<"P","r","o","f","e","s","s","i","o","n","a","l","i","s","m">>
\* The seven criteria the scores prompt names.
Criteria ==
    { SuggestsNewIdeas, Collaboration, Responsiveness, Adaptability,
      Feedback, Attendance, Professionalism }

\* ------------------------------------------------------------ JSON values
JStr(s) == [t |-> "str", s |-> s, n |-> 0, kids |-> <<>>]
JNum(n) == [t |-> "num", s |-> <<>>, n |-> n, kids |-> <<>>]
JLit(l) == [t |-> "lit", s |-> l, n |-> 0, kids |-> <<>>]
JArr(a) == [t |-> "arr", s |-> <<>>, n |-> 0, kids |-> [i \in 1..Len(a) |-> << <<>>, a[i] >>]]
JObj(m) == [t |-> "obj", s |-> <<>>, n |-> 0, kids |-> m]
JNull == JLit(<<"n","u","l","l">>)

\* Does object o have a member named k?
HasKey(o, k) == \E i \in 1..Len(o.kids) : o.kids[i][1] = k
\* The value of member k of object o.
GetKey(o, k) == o.kids[CHOOSE i \in 1..Len(o.kids) : o.kids[i][1] = k][2]
\* Members m with key k set to value x: a repeated key keeps its first
\* position and takes the last value, as a JavaScript object does.
PutMember(m, k, x) ==
    IF \E i \in 1..Len(m) : m[i][1] = k
    THEN [i \in 1..Len(m) |-> IF m[i][1] = k THEN <<k, x>> ELSE m[i]]
    ELSE Append(m, <<k, x>>)

\* --------------------------------------------------- String.prototype ops
\* indexOf: 0-based index of the first c in s, -1 when there is none.
IndexOf(s, c) ==
    LET at == { i \in 1..Len(s) : s[i] = c }
    IN IF at = {} THEN -1 ELSE (CHOOSE i \in at : \A j \in at : i <= j) - 1
\* lastIndexOf: 0-based index of the last c in s, -1 when there is none.
LastIndexOf(s, c) ==
    LET at == { i \in 1..Len(s) : s[i] = c }
    IN IF at = {} THEN -1 ELSE (CHOOSE i \in at : \A j \in at : i >= j) - 1
\* An index argument of substring clamped into 0..length.
ClampIndex(s, i) == IF i < 0 THEN 0 ELSE IF i > Len(s) THEN Len(s) ELSE i
\* substring(a, b): the characters from the smaller to the larger of the two
\* clamped indices, the larger excluded; the arguments swap when a > b.
Substring(s, a, b) ==
    LET ca == ClampIndex(s, a)
        cb == ClampIndex(s, b)
        lo == IF ca <= cb THEN ca ELSE cb
        hi == IF ca <= cb THEN cb ELSE ca
    IN SubSeq(s, lo + 1, hi)
\* startsWith(p)
StartsWith(s, p) == Len(s) >= Len(p) /\ SubSeq(s, 1, Len(p)) = p
\* Does p occur in s at 1-based position i?
OccursAt(s, p, i) == i + Len(p) - 1 <= Len(s) /\ SubSeq(s, i, i + Len(p) - 1) = p
\* split(sep)[1]: the text between the first and the second occurrence of
\* sep; undefined ("absent") when sep does not occur.
RECURSIVE UpToSeparator(_, _, _)
UpToSeparator(s, sep, i) ==
    IF i > Len(s) THEN Len(s) + 1
    ELSE IF OccursAt(s, sep, i) THEN i
    ELSE UpToSeparator(s, sep, i + 1)
SplitSecond(s, sep) ==
    LET first == UpToSeparator(s, sep, 1)
        from  == first + Len(sep)
        next  == UpToSeparator(s, sep, from)
    IN SubSeq(s, from, next - 1)

\* ------------------------------------------------------------- JSON.parse
ParseFail == [ok |-> FALSE, val |-> JNull, pos |-> 0]
ParseOk(x, p) == [ok |-> TRUE, val |-> x, pos |-> p]

IsWs(c) == c \in {" ", "\n", "\t", "\r"}
IsDigit(c) == c \in {"0","1","2","3","4","5","6","7","8","9"}
DigitVal(c) ==
    CHOOSE d \in 0..9 : <<"0","1","2","3","4","5","6","7","8","9">>[d + 1] = c
\* The character an escape letter stands for, inside a JSON string.
IsEscape(c) == c \in {"\"", "\\", "/", "n", "t", "r"}
Unescape(c) ==
    CASE c = "n" -> "\n" [] c = "t" -> "\t" [] c = "r" -> "\r" [] OTHER -> c

RECURSIVE SkipWs(_, _)
SkipWs(s, i) == IF i <= Len(s) /\ IsWs(s[i]) THEN SkipWs(s, i + 1) ELSE i

\* The rest of a string literal from position i, acc being its characters
\* so far: ends at the closing quote; a raw control character or an unknown
\* escape is a syntax error.
RECURSIVE ParseStringBody(_, _, _)
ParseStringBody(s, i, acc) ==
    IF i > Len(s) THEN ParseFail
    ELSE IF s[i] = "\"" THEN ParseOk(JStr(acc), i + 1)
    ELSE IF s[i] = "\\"
         THEN IF i + 1 <= Len(s) /\ IsEscape(s[i + 1])
              THEN ParseStringBody(s, i + 2, Append(acc, Unescape(s[i + 1])))
              ELSE ParseFail
    ELSE IF s[i] \in {"\n", "\t", "\r"} THEN ParseFail
    ELSE ParseStringBody(s, i + 1, Append(acc, s[i]))

RECURSIVE ParseDigits(_, _, _)
ParseDigits(s, i, acc) ==
    IF i <= Len(s) /\ IsDigit(s[i])
    THEN ParseDigits(s, i + 1, 10 * acc + DigitVal(s[i]))
    ELSE [val |-> acc, pos |-> i]

\* An integer literal: an optional minus, then 0 or a digit run that does
\* not start with 0.  (Fractions and exponents lie outside the texts drawn.)
ParseNumber(s, i) ==
    LET neg == s[i] = "-"
        j   == IF neg THEN i + 1 ELSE i
    IN IF j > Len(s) \/ ~IsDigit(s[j]) THEN ParseFail
       ELSE IF s[j] = "0" THEN ParseOk(JNum(0), j + 1)
       ELSE LET d == ParseDigits(s, j, 0)
            IN ParseOk(JNum(IF neg THEN 0 - d.val ELSE d.val), d.pos)

RECURSIVE ParseValue(_, _)
RECURSIVE ParseArrayItems(_, _, _)
RECURSIVE ParseMembers(_, _, _)

\* The elements of an array from position i (the start of an element).
ParseArrayItems(s, i, acc) ==
    LET e == ParseValue(s, i)
        j == SkipWs(s, e.pos)
    IN IF ~e.ok \/ j > Len(s) THEN ParseFail
       ELSE IF s[j] = "," THEN ParseArrayItems(s, SkipWs(s, j + 1), Append(acc, e.val))
       ELSE IF s[j] = "]" THEN ParseOk(JArr(Append(acc, e.val)), j + 1)
       ELSE ParseFail

\* The members of an object from position i (the start of a key).
ParseMembers(s, i, acc) ==
    IF i > Len(s) \/ s[i] # "\"" THEN ParseFail
    ELSE LET k == ParseStringBody(s, i + 1, <<>>)
             c == SkipWs(s, k.pos)
         IN IF ~k.ok \/ c > Len(s) \/ s[c] # ":" THEN ParseFail
            ELSE LET e == ParseValue(s, SkipWs(s, c + 1))
                     j == SkipWs(s, e.pos)
                 IN IF ~e.ok \/ j > Len(s) THEN ParseFail
                    ELSE IF s[j] = ","
                         THEN ParseMembers(s, SkipWs(s, j + 1), PutMember(acc, k.val.s, e.val))
                    ELSE IF s[j] = "}"
                         THEN ParseOk(JObj(PutMember(acc, k.val.s, e.val)), j + 1)
                    ELSE ParseFail

\* One JSON value starting at position i.
ParseValue(s, i) ==
    IF i > Len(s) THEN ParseFail
    ELSE IF s[i] = "{"
         THEN LET j == SkipWs(s, i + 1)
              IN IF j <= Len(s) /\ s[j] = "}" THEN ParseOk(JObj(<<>>), j + 1)
                 ELSE ParseMembers(s, j, <<>>)
    ELSE IF s[i] = "["
         THEN LET j == SkipWs(s, i + 1)
              IN IF j <= Len(s) /\ s[j] = "]" THEN ParseOk(JArr(<<>>), j + 1)
                 ELSE ParseArrayItems(s, j, <<>>)
    ELSE IF s[i] = "\"" THEN ParseStringBody(s, i + 1, <<>>)
    ELSE IF s[i] = "-" \/ IsDigit(s[i]) THEN ParseNumber(s, i)
    ELSE IF OccursAt(s, <<"t","r","u","e">>, i) THEN ParseOk(JLit(<<"t","r","u","e">>), i + 4)
    ELSE IF OccursAt(s, <<"f","a","l","s","e">>, i) THEN ParseOk(JLit(<<"f","a","l","s","e">>), i + 5)
    ELSE IF OccursAt(s, <<"n","u","l","l">>, i) THEN ParseOk(JNull, i + 4)
    ELSE ParseFail

\* JSON.parse(s): [ok, val]; ok = FALSE stands for the SyntaxError thrown.
\* The whole text must be one value with only whitespace around it.
JSONParse(s) ==
    LET r == ParseValue(s, SkipWs(s, 1))
    IN IF r.ok /\ SkipWs(s, r.pos) = Len(s) + 1
       THEN [ok |-> TRUE, val |-> r.val]
       ELSE [ok |-> FALSE, val |-> JNull]

\* --------------------------------------------------------- JSON.stringify
RECURSIVE EscapeString(_)
EscapeString(s) ==
    IF s = <<>> THEN <<>>
    ELSE LET c == Head(s)
             e == CASE c = "\"" -> <<"\\", "\"">>
                    [] c = "\\" -> <<"\\", "\\">>
                    [] c = "\n" -> <<"\\", "n">>
                    [] c = "\t" -> <<"\\", "t">>
                    [] c = "\r" -> <<"\\", "r">>
                    [] OTHER    -> <<c>>
         IN e \o EscapeString(Tail(s))

RECURSIVE NatDigits(_)
NatDigits(n) ==
    IF n < 10 THEN << <<"0","1","2","3","4","5","6","7","8","9">>[n + 1] >>
    ELSE NatDigits(n \div 10) \o << <<"0","1","2","3","4","5","6","7","8","9">>[(n % 10) + 1] >>

RECURSIVE JSONStringify(_)
RECURSIVE StringifyItems(_)
RECURSIVE StringifyMembers(_)
StringifyItems(a) ==
    IF a = <<>> THEN <<>>
    ELSE JSONStringify(Head(a)[2])
         \o (IF Len(a) > 1 THEN <<",">> ELSE <<>>) \o StringifyItems(Tail(a))
StringifyMembers(m) ==
    IF m = <<>> THEN <<>>
    ELSE <<"\"">> \o EscapeString(Head(m)[1]) \o <<"\"", ":">> \o JSONStringify(Head(m)[2])
         \o (IF Len(m) > 1 THEN <<",">> ELSE <<>>) \o StringifyMembers(Tail(m))
\* JSON.stringify(x), with no indentation.
JSONStringify(x) ==
    CASE x.t = "str" -> <<"\"">> \o EscapeString(x.s) \o <<"\"">>
      [] x.t = "num" -> IF x.n < 0 THEN <<"-">> \o NatDigits(0 - x.n) ELSE NatDigits(x.n)
      [] x.t = "lit" -> x.s
      [] x.t = "arr" -> <<"[">> \o StringifyItems(x.kids) \o <<"]">>
      [] x.t = "obj" -> <<"{">> \o StringifyMembers(x.kids) \o <<"}">>

\* ------------------------------------------------------ the request's data
\* The two copies of the handler, named after the field their schema adds.
Variants == {"scores", "patterns"}
\* Identities: path owner ids and token uids.
Uids == {"m1", "m2"}
\* The uid of a decoded token that carries none (req.user?.uid undefined).
NoUid == ""
\* The awaited collaborators.
Collaborators == {"verifyIdToken", "get", "generateContent"}

NoHeader == [present |-> FALSE, value |-> <<>>]
Header(s) == [present |-> TRUE, value |-> s]
\* Authorization headers a request may carry.
AuthHeaders ==
    { NoHeader,
      Header(<<>>),
      Header(<<"B","a","s","i","c"," ","t">>),
      Header(<<"b","e","a","r","e","r"," ","t">>),
      Header(BearerPrefix),
      Header(BearerPrefix \o <<"t">>),
      Header(BearerPrefix \o <<"t"," ">> \o BearerPrefix \o <<"u">>) }

\* What admin.auth().verifyIdToken settles with.
VerifyReplies ==
    { [kind |-> "rejects", uid |-> NoUid] }
    \cup { [kind |-> "resolves", uid |-> u] : u \in Uids \cup {NoUid} }
NoVerifyReply == [kind |-> "pending", uid |-> NoUid]

\* Incident documents: the date, when the document has one, by its ISO text.
Incidents ==
    { [hasDate |-> TRUE, iso |-> <<"2","0","2","5">>, description |-> <<"l","a","t","e">>],
      [hasDate |-> FALSE, iso |-> <<>>, description |-> <<"o","k">>] }
\* What incidentsRef.get() settles with.
StoreReplies ==
    { [kind |-> "throws", docs |-> <<>>] }
    \cup { [kind |-> "snapshot", docs |-> d] :
             d \in UNION { [1..n -> Incidents] : n \in 0..MaxIncidents } }
NoStoreReply == [kind |-> "pending", docs |-> <<>>]

\* A scores-shaped result giving every criterion the same score and
\* justification.
ScoresResult(summary, score, justification) ==
    LET names == << SuggestsNewIdeas, Collaboration, Responsiveness, Adaptability,
                    Feedback, Attendance, Professionalism >>
        entry == JObj(<< <<KeyScore, JNum(score)>>,
                         <<KeyJustification, JStr(justification)>> >>)
    IN JObj(<< <<KeySummary, JStr(summary)>>,
               <<KeyScores, JObj([i \in 1..7 |-> <<names[i], entry>>])>> >>)
\* A patterns-shaped result.
PatternsResult(summary, patterns, suggestions) ==
    JObj(<< <<KeySummary, JStr(summary)>>,
            <<KeyPatterns, JArr(patterns)>>,
            <<KeySuggestions, JArr(suggestions)>> >>)
\* Is x a scores mapping holding each criterion with an integer score in 1..5?
ValidScores(x) ==
    /\ x.t = "obj"
    /\ \A c \in Criteria :
         /\ HasKey(x, c)
         /\ GetKey(x, c).t = "obj"
         /\ HasKey(GetKey(x, c), KeyScore)
         /\ GetKey(GetKey(x, c), KeyScore).t = "num"
         /\ GetKey(GetKey(x, c), KeyScore).n \in 1..5
\* Is x a JSON array of strings?
StringArray(x) == x.t = "arr" /\ \A i \in 1..Len(x.kids) : x.kids[i][2].t = "str"
\* Is x a SummaryResult of one of the two shapes?
ValidSummaryResult(x) ==
    /\ x.t = "obj"
    /\ HasKey(x, KeySummary) /\ GetKey(x, KeySummary).t = "str"
    /\ \/ HasKey(x, KeyScores) /\ ValidScores(GetKey(x, KeyScores))
       \/ /\ HasKey(x, KeyPatterns) /\ StringArray(GetKey(x, KeyPatterns))
          /\ HasKey(x, KeySuggestions) /\ StringArray(GetKey(x, KeySuggestions))

\* JSON objects a provider text may embed: a scores result and a patterns
\* result, both with braces, quotes and escapes inside their strings, and an
\* object that is no valid SummaryResult (it scores no criterion).
ProviderObjects ==
    { ScoresResult(<<"a","}","\"","{">>, 5, <<"\\","\n","}">>),
      PatternsResult(<<"o","k">>, <<JStr(<<"p","{">>), JStr(<<>>)>>, <<>>),
      JObj(<< <<KeySummary, JStr(<<"o","k">>)>>, <<KeyScores, JObj(<<>>)>> >>) }
\* Prose before and after the embedded object.
Prefixes ==
    { <<>>, <<"H","i",":","\n">>, <<"}"," ">>, <<"a","{">> }
Suffixes ==
    { <<>>, <<"\n","T","x">>, <<" ","{">>, <<"}","a">> }
EmbeddedTexts ==
    { p \o JSONStringify(x) \o s : p \in Prefixes, x \in ProviderObjects, s \in Suffixes }
\* Characters of the provider texts enumerated exhaustively.
TextAlphabet == {"{", "}", "1"}
ShortTexts == UNION { [1..n -> TextAlphabet] : n \in 0..MaxTextLen }
\* What ai.models.generateContent settles with: it throws, or returns a
\* result whose text is absent, or one with a text.
AIReplies ==
    { [kind |-> "throws", text |-> <<>>], [kind |-> "notext", text |-> <<>>] }
    \cup { [kind |-> "text", text |-> s] : s \in ShortTexts \cup EmbeddedTexts }
NoAIReply == [kind |-> "pending", text |-> <<>>]

\* ------------------------------------------------------------------ state
VARIABLES
    authHeader,   \* the request's Authorization header
    mentorId,     \* the request's path owner id
    hung,         \* the collaborators whose call never settles
    verifyReply,  \* what verifyIdToken settles with, once it has
    storeReply,   \* what the store read settles with, once it has
    aiReply,      \* what the AI call settles with, once it has
    pc,           \* per copy: where the request stands
    user,         \* per copy: req.user's uid
    idToken,      \* per copy: the token handed to verifyIdToken
    aiRequest,    \* per copy: the request handed to generateContent
    calls,        \* per copy: the collaborator calls made, in order
    stages,       \* per copy: the stages run, in order
    failure,      \* per copy: what was thrown inside the handler's try
    resp          \* per copy: the responses emitted, in order

vars == << authHeader, mentorId, hung, verifyReply, storeReply, aiReply,
           pc, user, idToken, aiRequest, calls, stages, failure, resp >>

NoRequest == [template |-> "none", incidents |-> <<>>, required |-> <<>>]

Init ==
    /\ authHeader \in AuthHeaders
    /\ mentorId \in Uids
    /\ hung \in SUBSET Collaborators
    /\ verifyReply = NoVerifyReply
    /\ storeReply = NoStoreReply
    /\ aiReply = NoAIReply
    /\ pc = [v \in Variants |-> "idle"]
    /\ user = [v \in Variants |-> NoUid]
    /\ idToken = [v \in Variants |-> <<>>]
    /\ aiRequest = [v \in Variants |-> NoRequest]
    /\ calls = [v \in Variants |-> <<>>]
    /\ stages = [v \in Variants |-> <<>>]
    /\ failure = [v \in Variants |-> "none"]
    /\ resp = [v \in Variants |-> <<>>]

\* ------------------------------------------------------------ the handlers
Response(status, body) == [status |-> status, body |-> body]
ErrorBody(text) == JObj(<< <<KeyError, JStr(text)>> >>)

\* Mutant of HasBearer: the startsWith("Bearer ") test is forgotten.
HasBearerAnyScheme(h) == h.present /\ h.value # <<>>
\* verifyToken's header test.
HasBearer(h) == h.present /\ h.value # <<>> /\ StartsWith(h.value, BearerPrefix)
\* Mutant of OwnsData: a token without uid passes the ownership test.
OwnsDataOrNoUid(uid, owner) == uid = owner \/ uid = NoUid
\* The handler's ownership test.
OwnsData(uid, owner) == uid = owner
\* Mutant of SnapshotEmpty: the empty snapshot is never recognised.
SnapshotEmptyNever(docs) == Len(docs) < 0
\* snapshot.empty
SnapshotEmpty(docs) == Len(docs) = 0
\* Mutant of EmptyResult: the schema-specific fields are left out.
EmptyResultSummaryOnly(v) == JObj(<< <<KeySummary, JStr(NoIncidentsText)>> >>)
\* The canned result of an empty snapshot.
EmptyResult(v) ==
    IF v = "scores"
    THEN JObj(<< <<KeySummary, JStr(NoIncidentsText)>>, <<KeyScores, JObj(<<>>)>> >>)
    ELSE JObj(<< <<KeySummary, JStr(NoIncidentsText)>>,
                 <<KeyPatterns, JArr(<<>>)>>, <<KeySuggestions, JArr(<<>>)>> >>)
\* The catch block's response.
FailureResponse == Response(500, JObj(<< <<KeyMessage, JStr(SomethingWrongText)>> >>))

\* One incident rendered for the prompt.
IncidentText(d) ==
    (IF d.hasDate THEN d.iso ELSE UnknownDate) \o <<":", " ">> \o d.description
RECURSIVE Join(_, _)
Join(lines, sep) ==
    IF lines = <<>> THEN <<>>
    ELSE IF Len(lines) = 1 THEN lines[1]
    ELSE lines[1] \o sep \o Join(Tail(lines), sep)
\* Mutant of GenAIRequest: the patterns copy renders the incidents without
\* their dates.
GenAIRequestCopiesDrift(v, docs) ==
    [ template  |-> v,
      incidents |-> Join([i \in 1..Len(docs) |->
                            IF v = "scores" THEN IncidentText(docs[i])
                            ELSE docs[i].description], <<"\n">>),
      required  |-> IF v = "scores" THEN <<KeySummary, KeyScores>>
                    ELSE <<KeySummary, KeyPatterns, KeySuggestions>> ]
\* The object handed to generateContent: the prompt (its fixed template, by
\* the copy it belongs to, and the incident lines it ends with) and the
\* schema's required fields.
GenAIRequest(v, docs) ==
    [ template  |-> v,
      incidents |-> Join([i \in 1..Len(docs) |-> IncidentText(docs[i])], <<"\n">>),
      required  |-> IF v = "scores" THEN <<KeySummary, KeyScores>>
                    ELSE <<KeySummary, KeyPatterns, KeySuggestions>> ]

\* Mutant of ExtractJson: only the "{" is tested for; a text without "}"
\* goes on to substring and JSON.parse.
ExtractJsonNoEndCheck(reply) ==
    LET jsonString   == reply.text
        startIndex   == IndexOf(jsonString, "{")
        endIndex     == LastIndexOf(jsonString, "}")
        parsed       == JSONParse(Substring(jsonString, startIndex, endIndex + 1))
    IN IF reply.kind = "throws" THEN [ok |-> FALSE, val |-> JNull, why |-> "ai"]
       ELSE IF reply.kind = "notext" \/ jsonString = <<>>
            THEN [ok |-> FALSE, val |-> JNull, why |-> "notext"]
       ELSE IF startIndex = -1
            THEN [ok |-> FALSE, val |-> JNull, why |-> "nojson"]
       ELSE IF ~parsed.ok THEN [ok |-> FALSE, val |-> JNull, why |-> "parse"]
       ELSE [ok |-> TRUE, val |-> parsed.val, why |-> "none"]
\* Mutant of ExtractJson: the substring stops before the last "}".
ExtractJsonExclusiveEnd(reply) ==
    LET jsonString   == reply.text
        startIndex   == IndexOf(jsonString, "{")
        endIndex     == LastIndexOf(jsonString, "}")
        parsed       == JSONParse(Substring(jsonString, startIndex, endIndex))
    IN IF reply.kind = "throws" THEN [ok |-> FALSE, val |-> JNull, why |-> "ai"]
       ELSE IF reply.kind = "notext" \/ jsonString = <<>>
            THEN [ok |-> FALSE, val |-> JNull, why |-> "notext"]
       ELSE IF startIndex = -1 \/ endIndex = -1
            THEN [ok |-> FALSE, val |-> JNull, why |-> "nojson"]
       ELSE IF ~parsed.ok THEN [ok |-> FALSE, val |-> JNull, why |-> "parse"]
       ELSE [ok |-> TRUE, val |-> parsed.val, why |-> "none"]
\* The extraction step on an AI reply: [ok, val, why].  why names what was
\* thrown: "ai" (the call threw), "notext", "nojson", "parse".
ExtractJson(reply) ==
    LET jsonString   == reply.text
        startIndex   == IndexOf(jsonString, "{")
        endIndex     == LastIndexOf(jsonString, "}")
        extractedJson == Substring(jsonString, startIndex, endIndex + 1)
        parsed       == JSONParse(extractedJson)
    IN IF reply.kind = "throws" THEN [ok |-> FALSE, val |-> JNull, why |-> "ai"]
       ELSE IF reply.kind = "notext" \/ jsonString = <<>>
            THEN [ok |-> FALSE, val |-> JNull, why |-> "notext"]
       ELSE IF startIndex = -1 \/ endIndex = -1
            THEN [ok |-> FALSE, val |-> JNull, why |-> "nojson"]
       ELSE IF ~parsed.ok THEN [ok |-> FALSE, val |-> JNull, why |-> "parse"]
       ELSE [ok |-> TRUE, val |-> parsed.val, why |-> "none"]
\* The extraction step on each reply the provider may give, as pairs
\* <<reply, ExtractJson(reply)>>.
Extractions == { <<r, ExtractJson(r)>> : r \in AIReplies }

\* res.status(..).send/json: the copy emits a response and its run ends.
Respond(v, r) ==
    /\ resp' = [resp EXCEPT ![v] = Append(@, r)]
    /\ pc' = [pc EXCEPT ![v] = "done"]

\* Mutant of VerifyTokenEnter: the 401 branch does not return, so the
\* verifier is called as well.
VerifyTokenEnterNoReturn(v) ==
    /\ pc[v] = "idle"
    /\ resp' = [resp EXCEPT ![v] =
                  IF ~HasBearer(authHeader)
                  THEN Append(@, Response(401, ErrorBody(NoTokenText))) ELSE @]
    /\ idToken' = [idToken EXCEPT ![v] = SplitSecond(authHeader.value, BearerPrefix)]
    /\ calls' = [calls EXCEPT ![v] = Append(@, "verifyIdToken")]
    /\ stages' = [stages EXCEPT ![v] = Append(@, "header")]
    /\ pc' = [pc EXCEPT ![v] = "verifying"]
    /\ UNCHANGED << authHeader, mentorId, hung, verifyReply, storeReply, aiReply,
                    user, aiRequest, failure >>
\* verifyToken up to its await: 401 without a bearer header, otherwise the
\* token is cut out of the header and handed to verifyIdToken.
VerifyTokenEnter(v) ==
    /\ pc[v] = "idle"
    /\ IF ~HasBearer(authHeader)
       THEN /\ Respond(v, Response(401, ErrorBody(NoTokenText)))
            /\ stages' = [stages EXCEPT ![v] = Append(@, "header")]
            /\ UNCHANGED << idToken, calls >>
       ELSE /\ idToken' = [idToken EXCEPT ![v] = SplitSecond(authHeader.value, BearerPrefix)]
            /\ calls' = [calls EXCEPT ![v] = Append(@, "verifyIdToken")]
            /\ stages' = [stages EXCEPT ![v] = Append(@, "header")]
            /\ pc' = [pc EXCEPT ![v] = "verifying"]
            /\ UNCHANGED resp
    /\ UNCHANGED << authHeader, mentorId, hung, verifyReply, storeReply, aiReply,
                    user, aiRequest, failure >>

\* verifyIdToken settles: a rejection is answered 403; otherwise next() runs
\* the route handler up to its first await: the ownership test, then the
\* store read is issued.
VerifyIdTokenSettles(v) ==
    /\ pc[v] = "verifying"
    /\ "verifyIdToken" \notin hung
    /\ \E r \in (IF verifyReply = NoVerifyReply THEN VerifyReplies ELSE {verifyReply}) :
         /\ verifyReply' = r
         /\ IF r.kind = "rejects"
            THEN /\ Respond(v, Response(403, ErrorBody(InvalidTokenText)))
                 /\ stages' = [stages EXCEPT ![v] = Append(@, "verify")]
                 /\ UNCHANGED << user, calls >>
            ELSE /\ user' = [user EXCEPT ![v] = r.uid]
                 /\ IF ~OwnsData(r.uid, mentorId)
                    THEN /\ Respond(v, Response(403, ErrorBody(OwnDataText)))
                         /\ stages' = [stages EXCEPT ![v] = @ \o <<"verify", "owner">>]
                         /\ UNCHANGED calls
                    ELSE /\ calls' = [calls EXCEPT ![v] = Append(@, "get")]
                         /\ stages' = [stages EXCEPT ![v] = @ \o <<"verify", "owner">>]
                         /\ pc' = [pc EXCEPT ![v] = "fetching"]
                         /\ UNCHANGED resp
    /\ UNCHANGED << authHeader, mentorId, hung, storeReply, aiReply,
                    idToken, aiRequest, failure >>

\* Mutant of StoreGetSettles: a read that throws is issued again.
StoreGetSettlesRetry(v) ==
    /\ pc[v] = "fetching"
    /\ "get" \notin hung
    /\ \E r \in (IF storeReply = NoStoreReply THEN StoreReplies ELSE {storeReply}) :
         /\ storeReply' = r
         /\ stages' = [stages EXCEPT ![v] = Append(@, "fetch")]
         /\ IF r.kind = "throws"
            THEN /\ calls' = [calls EXCEPT ![v] = Append(@, "get")]
                 /\ UNCHANGED << aiRequest, failure, resp, pc >>
            ELSE IF SnapshotEmpty(r.docs)
            THEN /\ Respond(v, Response(200, EmptyResult(v)))
                 /\ UNCHANGED << aiRequest, calls, failure >>
            ELSE /\ aiRequest' = [aiRequest EXCEPT ![v] = GenAIRequest(v, r.docs)]
                 /\ calls' = [calls EXCEPT ![v] = Append(@, "generateContent")]
                 /\ pc' = [pc EXCEPT ![v] = "prompting"]
                 /\ UNCHANGED << resp, failure >>
    /\ UNCHANGED << authHeader, mentorId, hung, verifyReply, aiReply, user, idToken >>
\* The store read settles: a throw goes to the catch block; an empty
\* snapshot is answered with the canned result; otherwise the prompt is
\* built and the AI call issued.
StoreGetSettles(v) ==
    /\ pc[v] = "fetching"
    /\ "get" \notin hung
    /\ \E r \in (IF storeReply = NoStoreReply THEN StoreReplies ELSE {storeReply}) :
         /\ storeReply' = r
         /\ stages' = [stages EXCEPT ![v] = Append(@, "fetch")]
         /\ IF r.kind = "throws"
            THEN /\ failure' = [failure EXCEPT ![v] = "store"]
                 /\ Respond(v, FailureResponse)
                 /\ UNCHANGED << aiRequest, calls >>
            ELSE IF SnapshotEmpty(r.docs)
            THEN /\ Respond(v, Response(200, EmptyResult(v)))
                 /\ UNCHANGED << aiRequest, calls, failure >>
            ELSE /\ aiRequest' = [aiRequest EXCEPT ![v] = GenAIRequest(v, r.docs)]
                 /\ calls' = [calls EXCEPT ![v] = Append(@, "generateContent")]
                 /\ pc' = [pc EXCEPT ![v] = "prompting"]
                 /\ UNCHANGED << resp, failure >>
    /\ UNCHANGED << authHeader, mentorId, hung, verifyReply, aiReply, user, idToken >>

\* The AI call settles: the extraction step runs on its result and the
\* parsed value is sent; whatever was thrown goes to the catch block.
GenerateContentSettles(v) ==
    /\ pc[v] = "prompting"
    /\ "generateContent" \notin hung
    /\ \E x \in Extractions :
         /\ aiReply \in {NoAIReply, x[1]}
         /\ aiReply' = x[1]
         /\ stages' = [stages EXCEPT ![v] =
                         @ \o (IF x[1].kind = "throws" THEN <<"prompt">>
                               ELSE <<"prompt", "extract">>)]
         /\ failure' = [failure EXCEPT ![v] = x[2].why]
         /\ Respond(v, IF x[2].ok THEN Response(200, x[2].val) ELSE FailureResponse)
    /\ UNCHANGED << authHeader, mentorId, hung, verifyReply, storeReply,
                    user, idToken, aiRequest, calls >>

Next ==
    \E v \in Variants :
        \/ VerifyTokenEnter(v)
        \/ VerifyIdTokenSettles(v)
        \/ StoreGetSettles(v)
        \/ GenerateContentSettles(v)

Spec == Init /\ [][Next]_vars

\* Every issued call that is not hung settles, and every handler step that
\* can run does: the event loop runs each ready continuation.
FairSpec ==
    /\ Spec
    /\ \A v \in Variants :
         /\ WF_vars(VerifyTokenEnter(v))
         /\ WF_vars(VerifyIdTokenSettles(v))
         /\ WF_vars(StoreGetSettles(v))
         /\ WF_vars(GenerateContentSettles(v))

\* ----------------------------------------------------------------- claims
InCalls(v, c) == \E i \in 1..Len(calls[v]) : calls[v][i] = c
InStages(v, s) == \E i \in 1..Len(stages[v]) : stages[v][i] = s
HasChar(s, c) == \E i \in 1..Len(s) : s[i] = c
IsPrefixOf(s, whole) == Len(s) <= Len(whole) /\ SubSeq(whole, 1, Len(s)) = s
GenericFailure == [status |-> 500, body |-> JObj(<< <<KeyMessage, JStr(SomethingWrongText)>> >>)]
\* The store read settled with an empty snapshot.
EmptySnapshot == storeReply.kind = "snapshot" /\ storeReply.docs = <<>>
\* Copy v made the AI call and it settled with a text.
GotText(v) == pc[v] = "done" /\ InCalls(v, "generateContent") /\ aiReply.kind = "text"
\* The provider texts built as prefix + serialize(x) + suffix, x a valid
\* SummaryResult.
EmbeddedCases ==
    { [prefix |-> p, x |-> x, suffix |-> s, text |-> p \o JSONStringify(x) \o s] :
        p \in Prefixes, x \in { y \in ProviderObjects : ValidSummaryResult(y) }, s \in Suffixes }

\* C1: when the verified uid equals the path owner id and the store read
\* returns zero records, the AI provider is never called and the handler
\* responds once, 200, with the canned result whose summary is "No incidents
\* to summarize yet.".
C1_EmptyShortCircuit ==
    \A v \in Variants :
        EmptySnapshot =>
            /\ ~InCalls(v, "generateContent")
            /\ aiReply = NoAIReply
            /\ (pc[v] = "done" /\ InCalls(v, "get")) =>
                  /\ Len(resp[v]) = 1
                  /\ resp[v][1].status = 200
                  /\ resp[v][1].body.t = "obj"
                  /\ HasKey(resp[v][1].body, KeySummary)
                  /\ GetKey(resp[v][1].body, KeySummary) = JStr(NoIncidentsText)
C1_Witness ==
    \E v \in Variants :
        /\ EmptySnapshot /\ pc[v] = "done" /\ InCalls(v, "get")
        /\ user[v] = mentorId /\ Len(resp[v]) = 1 /\ resp[v][1].status = 200

\* C2: when the verified uid (possibly absent) differs from the path owner
\* id, neither the store read nor the AI call is ever made and the request
\* is answered 403, once.
C2_OwnerMismatchForbidden ==
    (verifyReply.kind = "resolves" /\ verifyReply.uid # mentorId) =>
        /\ storeReply = NoStoreReply /\ aiReply = NoAIReply
        /\ \A v \in Variants :
             /\ ~InCalls(v, "get") /\ ~InCalls(v, "generateContent")
             /\ (pc[v] = "done" /\ InStages(v, "verify")) =>
                   (Len(resp[v]) = 1 /\ resp[v][1].status = 403)
C2_Witness ==
    \E v \in Variants :
        /\ verifyReply.kind = "resolves" /\ verifyReply.uid = NoUid
        /\ pc[v] = "done" /\ InStages(v, "owner") /\ resp[v][1].status = 403

\* C3: verifyToken has exactly one outcome per request: 401 without calling
\* the verifier when the header is absent or does not start with "Bearer ";
\* 403 when the header is well-formed and verification rejects; otherwise
\* the route handler runs.  The route handler, and with it any store read or
\* AI call, runs only after a successful verification.
C3_GuardOutcomes ==
    \A v \in Variants :
        LET malformed == ~authHeader.present \/ ~StartsWith(authHeader.value, BearerPrefix)
        IN /\ malformed =>
                /\ calls[v] = <<>>
                /\ verifyReply = NoVerifyReply
                /\ pc[v] # "idle" =>
                     (pc[v] = "done" /\ Len(resp[v]) = 1 /\ resp[v][1].status = 401)
           /\ (~malformed /\ pc[v] # "idle") =>
                /\ calls[v][1] = "verifyIdToken"
                /\ ~(Len(resp[v]) > 0 /\ resp[v][1].status = 401)
           /\ (~malformed /\ InStages(v, "verify") /\ verifyReply.kind = "rejects") =>
                /\ pc[v] = "done" /\ Len(resp[v]) = 1 /\ resp[v][1].status = 403
                /\ ~InStages(v, "owner")
           /\ (~malformed /\ InStages(v, "verify") /\ verifyReply.kind = "resolves") =>
                InStages(v, "owner")
           /\ (InStages(v, "owner") \/ InCalls(v, "get") \/ InCalls(v, "generateContent")) =>
                /\ verifyReply.kind = "resolves"
                /\ InStages(v, "verify")
                /\ calls[v][1] = "verifyIdToken"
C3_Witness ==
    /\ \E v \in Variants : pc[v] = "fetching" /\ verifyReply.kind = "resolves"
    /\ authHeader.present /\ authHeader.value = BearerPrefix

\* C4: for an authorized request, every failure after authorization (the
\* store read throws, the AI call throws, the AI result has no or empty text,
\* the text has no "{" or no "}", or JSON parsing of the extracted substring
\* throws) is answered once, 500, with body exactly
\* {"message": "Something wrong happened"}, whichever failure it was.
C4_GenericFailure ==
    \A v \in Variants :
        LET text == aiReply.text
            storeFailed == InStages(v, "fetch") /\ storeReply.kind = "throws"
            aiFailed ==
                /\ pc[v] = "done" /\ InCalls(v, "generateContent")
                /\ \/ aiReply.kind = "throws"
                   \/ aiReply.kind = "notext"
                   \/ text = <<>>
                   \/ ~HasChar(text, "{")
                   \/ ~HasChar(text, "}")
                   \/ ~JSONParse(Substring(text, IndexOf(text, "{"),
                                           LastIndexOf(text, "}") + 1)).ok
        IN /\ (storeFailed \/ aiFailed) => resp[v] = << GenericFailure >>
           /\ failure[v] # "none" => resp[v] = << GenericFailure >>
           /\ (storeFailed \/ aiFailed) <=> failure[v] # "none"
C4_Witness ==
    \E v \in Variants :
        /\ failure[v] = "nojson" /\ aiReply.text # <<>> /\ ~HasChar(aiReply.text, "}")
        /\ HasChar(aiReply.text, "{")
        /\ resp[v] = << GenericFailure >>

\* C5 as stated: whenever the provider returns prefix + serialize(x) + suffix
\* for a valid SummaryResult x and any prefix and suffix, the handler
\* responds 200 with x.
C5_RoundTripAnyProse ==
    \A v \in Variants : \A c \in EmbeddedCases :
        (GotText(v) /\ aiReply.text = c.text) =>
            resp[v] = << [status |-> 200, body |-> c.x] >>
\* C5 as amended: the same, for a prefix that holds no "{" and a suffix that
\* holds no "}".
C5_RoundTripCleanProse ==
    \A v \in Variants : \A c \in EmbeddedCases :
        (GotText(v) /\ aiReply.text = c.text
           /\ ~HasChar(c.prefix, "{") /\ ~HasChar(c.suffix, "}")) =>
            resp[v] = << [status |-> 200, body |-> c.x] >>
C5_Witness ==
    \E v \in Variants : \E c \in EmbeddedCases :
        /\ GotText(v) /\ aiReply.text = c.text
        /\ c.prefix # <<>> /\ c.suffix # <<>>
        /\ HasChar(c.prefix, "}") /\ HasChar(c.suffix, "{")
        /\ HasKey(c.x, KeyScores)
        /\ resp[v] = << [status |-> 200, body |-> c.x] >>

\* The characters of s from its first "{" to its last "}", both included;
\* empty when the last "}" comes before the first "{".
BraceSpan(s) == SubSeq(s, IndexOf(s, "{") + 1, LastIndexOf(s, "}") + 1)
\* C6: for a provider text holding both a "{" and a "}" whose span from the
\* first "{" to the last "}" is not valid JSON, also when the last "}" comes
\* before the first "{", the client receives 500; a 200 body drawn from a
\* provider text is the parse of a span that starts with "{" and ends with
\* "}".
C6_MalformedSpanFails ==
    \A v \in Variants :
        (GotText(v) /\ HasChar(aiReply.text, "{") /\ HasChar(aiReply.text, "}")) =>
            LET span == BraceSpan(aiReply.text)
            IN /\ ~JSONParse(span).ok => resp[v] = << GenericFailure >>
               /\ (Len(resp[v]) = 1 /\ resp[v][1].status = 200) =>
                     /\ span # <<>> /\ Head(span) = "{" /\ span[Len(span)] = "}"
                     /\ resp[v][1].body = JSONParse(span).val

\* The body of copy v's 200 response holds a scores mapping with each of the
\* seven criteria at an integer score in 1..5.
BodyHasSevenScores(v) ==
    /\ resp[v][1].body.t = "obj"
    /\ HasKey(resp[v][1].body, KeyScores)
    /\ ValidScores(GetKey(resp[v][1].body, KeyScores))
Answered200(v) == Len(resp[v]) = 1 /\ resp[v][1].status = 200
\* C7 as stated: every 200 response of the scores copy carries the seven
\* criteria, each with an integer score in 1..5.
C7_AlwaysSevenScores ==
    Answered200("scores") => BodyHasSevenScores("scores")
\* C7 as amended: the 200 response of the empty short-circuit carries an
\* empty scores mapping; a 200 response parsed from provider text carries
\* the seven criteria with scores in 1..5 exactly when the object in the
\* provider text does.
C7_ScoresAsProvided ==
    Answered200("scores") =>
        /\ ~InCalls("scores", "generateContent") =>
              /\ resp["scores"][1].body.t = "obj"
              /\ HasKey(resp["scores"][1].body, KeyScores)
              /\ GetKey(resp["scores"][1].body, KeyScores) = JObj(<<>>)
              /\ ~BodyHasSevenScores("scores")
        /\ InCalls("scores", "generateContent") =>
              LET parsed == JSONParse(BraceSpan(aiReply.text))
              IN BodyHasSevenScores("scores") <=>
                   /\ parsed.ok /\ parsed.val.t = "obj"
                   /\ HasKey(parsed.val, KeyScores)
                   /\ ValidScores(GetKey(parsed.val, KeyScores))
C7_Witness ==
    /\ Answered200("scores") /\ ~InCalls("scores", "generateContent")
    /\ GetKey(resp["scores"][1].body, KeyScores) = JObj(<<>>)

\* C8 as stated: given the same request and the same collaborator replies,
\* the two copies make the same collaborator calls and emit the same status
\* and the same body.
C8_SameResponse ==
    (\A v \in Variants : pc[v] = "done") =>
        /\ calls["scores"] = calls["patterns"]
        /\ resp["scores"] = resp["patterns"]
\* C8 as amended: the two copies make the same collaborator calls (with the
\* same token and the same incident lines; the prompt template and schema
\* differ) and emit the same status, and the same body except on an empty
\* snapshot, where each sends its own canned result: scores {} in one,
\* patterns [] and suggestions [] in the other.
C8_SameButEmptyResult ==
    /\ \A v, w \in Variants :
          IsPrefixOf(calls[v], calls[w]) \/ IsPrefixOf(calls[w], calls[v])
    /\ (\A v \in Variants : pc[v] = "done") =>
          /\ calls["scores"] = calls["patterns"]
          /\ idToken["scores"] = idToken["patterns"]
          /\ aiRequest["scores"].incidents = aiRequest["patterns"].incidents
          /\ Len(resp["scores"]) = 1 /\ Len(resp["patterns"]) = 1
          /\ resp["scores"][1].status = resp["patterns"][1].status
          /\ IF EmptySnapshot
             THEN /\ resp["scores"][1].body =
                       JObj(<< <<KeySummary, JStr(NoIncidentsText)>>,
                               <<KeyScores, JObj(<<>>)>> >>)
                  /\ resp["patterns"][1].body =
                       JObj(<< <<KeySummary, JStr(NoIncidentsText)>>,
                               <<KeyPatterns, JArr(<<>>)>>,
                               <<KeySuggestions, JArr(<<>>)>> >>)
             ELSE resp["scores"][1].body = resp["patterns"][1].body
C8_Witness ==
    /\ \A v \in Variants : pc[v] = "done" /\ Answered200(v)
    /\ EmptySnapshot
    /\ resp["scores"][1].body # resp["patterns"][1].body

\* C9: within one request the stages run in the order header test, token
\* verification, ownership test, store read, AI call, extraction, each at
\* most once: the store is read at most once and only after the ownership
\* test passed, the AI provider is called at most once and only after a
\* store read that returned a record, extraction runs only after the AI call
\* returned, and a response ends the run.
C9_StageOrder ==
    \A v \in Variants :
        /\ IsPrefixOf(stages[v], <<"header", "verify", "owner", "fetch", "prompt", "extract">>)
        /\ IsPrefixOf(calls[v], <<"verifyIdToken", "get", "generateContent">>)
        /\ InCalls(v, "get") =>
              (InStages(v, "owner") /\ user[v] = mentorId /\ verifyReply.kind = "resolves")
        /\ InStages(v, "fetch") => (InCalls(v, "get") /\ storeReply # NoStoreReply)
        /\ InCalls(v, "generateContent") =>
              (InStages(v, "fetch") /\ storeReply.kind = "snapshot" /\ Len(storeReply.docs) >= 1)
        /\ InStages(v, "prompt") => (InCalls(v, "generateContent") /\ aiReply # NoAIReply)
        /\ InStages(v, "extract") => (InStages(v, "prompt") /\ aiReply.kind # "throws")
        /\ Len(resp[v]) <= 1
        /\ Len(resp[v]) = 1 <=> pc[v] = "done"
C9_Witness ==
    \E v \in Variants :
        /\ stages[v] = <<"header", "verify", "owner", "fetch", "prompt", "extract">>
        /\ failure[v] = "parse"

\* Copy v has made a call to a collaborator that never settles.
AwaitsHungCall(v) == \E c \in hung : InCalls(v, c)
\* C10: a request never emits a second response; when every awaited call it
\* makes settles it eventually emits exactly one response, and when a call it
\* makes never settles it never emits any.
C10_ResponseIffCallsSettle ==
    \A v \in Variants :
        /\ [](Len(resp[v]) <= 1)
        /\ [](AwaitsHungCall(v) => resp[v] = <<>>)
        /\ <>[](IF AwaitsHungCall(v) THEN resp[v] = <<>> ELSE Len(resp[v]) = 1)
C10_Witness ==
    \E v \in Variants :
        /\ pc[v] = "prompting" /\ "generateContent" \in hung /\ resp[v] = <<>>
        /\ AwaitsHungCall(v)
====
